---------------------------- MODULE Spec2Model ----------------------------
(***************************************************************************)
(* The video-share backend: Express request handlers over an Azure blob    *)
(* container and a Cosmos DB container of video documents.                 *)
(*                                                                         *)
(* src/src/server.js holds two revisions of the server, one after the      *)
(* other (revision 1: lines 1-210, revision 2: lines 212-464), and         *)
(* src/unnamed/part_000 holds a third (revision 3) which is revision 2     *)
(* without the GET /api/videos/:id route.  The variable `revision` says    *)
(* which of them is running; it never changes.                             *)
(*                                                                         *)
(* Every `await` of an SDK call is one step: the effect of the call on the *)
(* store (or its failure) together with the handler's code up to the next  *)
(* SDK call.  Requests interleave at these steps, as on the Node event     *)
(* loop.  Every SDK call may fail (rejected promise).                      *)
(*                                                                         *)
(* Not modelled: the description field and the file bytes (payload only).  *)
(* createdAt is the clock reading itself: toISOString() is fixed-width     *)
(* for the years 0..9999, where string order is time order.                *)
(* crypto.randomUUID() is modelled by its contract: an identifier that was *)
(* never handed out before.  Each revision runs against a container whose  *)
(* partition key is the one its own point operations pass (revision 1:     *)
(* userId, revisions 2 and 3: id).                                         *)
(***************************************************************************)
EXTENDS Integers, Sequences, FiniteSets, TLC

\* ------------------------------------------------------------------ bounds
NumSlots == 2      \* requests in flight at once (Spec)
MaxTime == 1       \* the clock runs 0..MaxTime
MaxIds == 2        \* identifiers randomUUID can hand out
MaxViews == 1      \* a video is viewed while its count is below this (Spec)
NumViewers == 3    \* concurrent getVideo requests (SpecViews)
MaxStartViews == 1 \* view count the video starts with (SpecViews)
NumRacers == 3     \* concurrent getVideo and deleteVideo requests (SpecRace)

Revisions == {1, 2, 3}
Ids == {"v" \o ToString(i) : i \in 1..MaxIds}
Users == {"u1", "u2"}
Titles == {"t"}
\* file.originalname as a sequence of characters; " " is whitespace, "#" a
\* character that a URL path escapes.
Files == {<<"a", " ", "b">>, <<"#">>}
NoFile == <<>>

VARIABLES
    revision,         \* which revision of the server is deployed
    videosContainer,  \* the Cosmos container: a set of video documents
    usersContainer,   \* the Cosmos container "users": a set of user documents
    blobs,            \* names of the blobs in the blob container
    containerExists,  \* whether the blob container exists
    now,              \* the clock: Date.now() / new Date()
    issued,           \* identifiers randomUUID has handed out
    req,              \* per slot: the request being served and its handler's locals
    scenario          \* what is being run: whether slots keep their responses,
                      \* and the view count the stored video started with

vars == <<revision, videosContainer, usersContainer, blobs, containerExists, now,
          issued, req, scenario>>

\* ------------------------------------------------------------- strings
\* text.replace(/\s+/g, "_"): every maximal run of whitespace becomes one "_".
RECURSIVE ReplaceWhitespace(_)
ReplaceWhitespace(s) ==
    IF s = <<>> THEN <<>>
    ELSE IF Head(s) = " "
         THEN IF Len(s) > 1 /\ s[2] = " "
              THEN ReplaceWhitespace(Tail(s))
              ELSE <<"_">> \o ReplaceWhitespace(Tail(s))
         ELSE <<Head(s)>> \o ReplaceWhitespace(Tail(s))

\* `${Date.now()}-${safeName}`
BlobNameOf(t, originalname) == <<ToString(t), "-">> \o ReplaceWhitespace(originalname)

\* The SDK's EscapePath / escapeURLPath: encodeURIComponent on a path segment.
RECURSIVE EscapePath(_)
EscapePath(s) ==
    IF s = <<>> THEN <<>>
    ELSE (CASE Head(s) = "#" -> <<"%", "2", "3">>
            [] Head(s) = "%" -> <<"%", "2", "5">>
            [] Head(s) = " " -> <<"%", "2", "0">>
            [] OTHER -> <<Head(s)>>) \o EscapePath(Tail(s))

\* containerClient.url
ContainerUrl == <<"https:", "/", "/", "account.blob.core.windows.net", "/", "videos">>

\* containerClient.getBlockBlobClient(blobName).url
BlobUrlOf(blobName) == ContainerUrl \o <<"/">> \o EscapePath(blobName)

\* url.split("/").pop(): what follows the last "/".
RECURSIVE SplitPop(_)
SplitPop(url) ==
    IF \E i \in 1..Len(url) : url[i] = "/"
    THEN SplitPop(Tail(url))
    ELSE url

\* ------------------------------------------------------------ documents
NoReq ==
    [op |-> "none", pc |-> "idle", id |-> "", userId |-> "", title |-> "",
     file |-> NoFile, blobName |-> <<>>, video |-> <<>>,
     viewsRead |-> 0, principal |-> <<>>, user |-> <<>>,
     status |-> 0, body |-> <<>>, error |-> "", logged |-> <<>>]

Slots == DOMAIN req

\* The partition key value of a stored document.
PartitionKeyOf(d) == IF revision = 1 THEN d.userId ELSE d.id

\* videosContainer.item(id, partitionKey): the documents a point operation addresses.
Item(id, partitionKey) ==
    {d \in videosContainer : d.id = id /\ PartitionKeyOf(d) = partitionKey}

\* "SELECT * FROM c WHERE c.id = @id"
QueryById(id) == {d \in videosContainer : d.id = id}

\* crypto.randomUUID(): the identifiers it can return next.
generateId == Ids \ issued

\* res.status(s).json(...) and the end of the handler.
Respond(r, s, body, error) ==
    [r EXCEPT !.pc = "done", !.status = s, !.body = body, !.error = error]

\* console.error(message, err.message) / console.warn(...): err.message names
\* the SDK call that threw.
Log(r, message, call) == [r EXCEPT !.logged = Append(@, <<message, call>>)]

\* catch (err) { console.error(message, err.message); res.status(s).json({ error }) }
Catch(r, message, call, s, error) == Respond(Log(r, message, call), s, <<>>, error)

\* No response is waiting to be written out.  A response stays on its slot
\* until Flush writes it out, which is the server's next step; when responses
\* are kept, it stays for good and the slot serves no further request.
Quiet == scenario.keepResponses \/ \A s \in Slots : req[s].pc # "done"

\* A handler's next step can run.
At(s, pc) == Quiet /\ req[s].pc = pc

\* A new request takes the lowest slot that serves none.
Free(s) == At(s, "idle") /\ \A t \in Slots : t < s => req[t].pc # "idle"

\* Uploads that have yet to draw their identifier.
AwaitingId == {s \in Slots : req[s].pc = "uploadData"}

Init ==
    /\ revision \in Revisions
    /\ videosContainer = {}
    /\ usersContainer = {}
    /\ blobs = {}
    /\ containerExists = FALSE
    /\ now = 0
    /\ issued = {}
    /\ req = [s \in 1..NumSlots |-> NoReq]
    /\ scenario = [keepResponses |-> FALSE, startViews |-> 0]

\* The clock advances.
Tick ==
    /\ Quiet
    /\ now < MaxTime
    /\ now' = now + 1
    /\ UNCHANGED <<usersContainer, revision, videosContainer, blobs, containerExists, issued, req,
                   scenario>>

\* The response goes out on the connection and the slot is free again.
Flush ==
    /\ ~Quiet
    /\ req' = [s \in Slots |-> IF req[s].pc = "done" THEN NoReq ELSE req[s]]
    /\ UNCHANGED <<usersContainer, revision, videosContainer, blobs, containerExists, now, issued,
                   scenario>>

\* --------------------------------------------------- POST /api/videos
\* ensureBlobContainer(): revision 1 lets the failure escape, revisions 2 and 3
\* log it and return.
ensureBlobContainerThrows(failed) == failed /\ revision = 1

\* if (!title || !userId || !file)
MissingField(title, userId, file) == title = "" \/ userId = "" \/ file = NoFile

\* The request arrives; await ensureBlobContainer(); validation; the blob name.
UploadEnsure(s, title, userId, file, failed) ==
    /\ Free(s)
    /\ Cardinality(issued) + Cardinality(AwaitingId) < MaxIds
    /\ containerExists' = (containerExists \/ ~failed)
    /\ LET arrived == [NoReq EXCEPT !.op = "upload", !.title = title,
                                    !.userId = userId, !.file = file]
           r == IF failed /\ ~ensureBlobContainerThrows(failed)
                THEN Log(arrived, "Error ensuring blob container", "createIfNotExists")
                ELSE arrived
       IN req' = [req EXCEPT ![s] =
            IF ensureBlobContainerThrows(failed)
            THEN Catch(r, "Error uploading video", "createIfNotExists",
                       500, "Upload failed")
            ELSE IF MissingField(title, userId, file)
            THEN Respond(r, 400, <<>>, "title, userId and file are required")
            ELSE [r EXCEPT !.pc = "uploadData",
                           !.blobName = BlobNameOf(now, file)]]
    /\ UNCHANGED <<usersContainer, revision, videosContainer, blobs, now, issued, scenario>>

\* The document the upload handler builds.
NewVideo(id, title, userId, blobUrl, createdAt) ==
    [id |-> id, title |-> title, userId |-> userId, blobUrl |-> blobUrl,
     createdAt |-> createdAt, views |-> 0]

\* await blockBlobClient.uploadData(...); generateId(); the new document.
UploadData(s, failed) ==
    /\ At(s, "uploadData")
    /\ IF failed \/ ~containerExists
       THEN /\ req' = [req EXCEPT ![s] =
                        Catch(req[s], "Error uploading video", "uploadData",
                              500, "Upload failed")]
            /\ UNCHANGED <<blobs, issued>>
       ELSE \E id \in generateId :
            /\ blobs' = blobs \cup {req[s].blobName}
            /\ issued' = issued \cup {id}
            /\ req' = [req EXCEPT ![s] =
                 [req[s] EXCEPT !.pc = "create", !.id = id,
                     !.video = <<NewVideo(id, req[s].title, req[s].userId,
                                          BlobUrlOf(req[s].blobName), now)>>]]
    /\ UNCHANGED <<usersContainer, revision, videosContainer, containerExists, now,
                   scenario>>

\* videosContainer.items.create(doc): a document with this id in this
\* partition is a conflict.
CreateConflicts(doc) == Item(doc.id, PartitionKeyOf(doc)) # {}

CreateItem(doc) == videosContainer \cup {doc}

\* await videosContainer.items.create(newVideo); res.status(201).json(newVideo)
UploadCreate(s, failed) ==
    /\ At(s, "create")
    /\ LET newVideo == req[s].video[1]
       IN IF failed \/ CreateConflicts(newVideo)
          THEN /\ req' = [req EXCEPT ![s] =
                           Catch(req[s], "Error uploading video", "create",
                                 500, "Upload failed")]
               /\ UNCHANGED videosContainer
          ELSE /\ videosContainer' = CreateItem(newVideo)
               /\ req' = [req EXCEPT ![s] =
                           Respond(req[s], 201, <<newVideo>>, "")]
    /\ UNCHANGED <<usersContainer, revision, blobs, containerExists, now, issued,
                   scenario>>

\* ------------------------------------------------ GET /api/videos/:id
\* part_000 registers no route for GET /api/videos/:id.
HasGetRoute == revision \in {1, 2}

\* Mutants of IncrementViews: the count goes up by two; the count read is ignored.
IncrementViews_ByTwo(video) == [video EXCEPT !.views = @ + 2]

IncrementViews_FromZero(video) == [video EXCEPT !.views = 1]

\* video.views = (video.views || 0) + 1   /   resource.views += 1
IncrementViews(video) == [video EXCEPT !.views = @ + 1]

\* Mutant of Lookup: the query has lost its WHERE clause.
Lookup_Unfiltered(id) == videosContainer

\* What the handler's lookup finds: revision 1 queries by id (getVideoById),
\* revisions 2 and 3 point-read item(id, id).
Lookup(id) == IF revision = 1 THEN QueryById(id) ELSE Item(id, id)

\* The documents the handler's replace or delete addresses: revision 1 passes
\* item(video.id, video.userId || video.id), revisions 2 and 3 item(id, id).
Target(id, video) ==
    IF revision = 1
    THEN Item(video.id, IF video.userId # "" THEN video.userId ELSE video.id)
    ELSE Item(id, id)

\* The request arrives; the lookup; the increment of the local copy.
GetRead(s, id, failed) ==
    /\ HasGetRoute
    /\ Free(s)
    /\ LET r == [NoReq EXCEPT !.op = "get", !.id = id]
       IN IF failed
          THEN req' = [req EXCEPT ![s] =
                 IF revision = 1
                 THEN Catch(r, "Error getting video", "query",
                            500, "Failed to get video")
                 ELSE Catch(r, "Error getting video", "read",
                            404, "Video not found")]
          ELSE IF Lookup(id) = {}
          THEN req' = [req EXCEPT ![s] = Respond(r, 404, <<>>, "Video not found")]
          ELSE \E video \in Lookup(id) :
                 /\ scenario.keepResponses \/ video.views < MaxViews
                 /\ req' = [req EXCEPT ![s] =
                     [r EXCEPT !.pc = "replace", !.viewsRead = video.views,
                               !.video = <<IncrementViews(video)>>]]
    /\ UNCHANGED <<usersContainer, revision, videosContainer, blobs, containerExists, now, issued,
                   scenario>>

\* Mutant of ItemNotFound: a point operation never misses, so that a replace
\* of an absent item stores it (an upsert).
ItemNotFound_Never(target) == FALSE

\* A point operation on an item that does not exist is rejected (404 NotFound).
ItemNotFound(target) == target = {}

\* item(...).replace(doc): the addressed document is overwritten by doc.
ReplaceItem(target, doc) == (videosContainer \ target) \cup {doc}

\* await videosContainer.item(...).replace(video); res.json(video)
GetReplace(s, failed) ==
    /\ At(s, "replace")
    /\ LET video == req[s].video[1]
           target == Target(req[s].id, video)
           call == IF failed THEN "replace" ELSE "replace: NotFound"
       IN IF failed \/ ItemNotFound(target)
          THEN /\ req' = [req EXCEPT ![s] =
                    IF revision = 1
                    THEN Respond(Log(req[s], "Could not update views", call),
                                 200, <<video>>, "")
                    ELSE Catch(req[s], "Error getting video", call,
                               404, "Video not found")]
               /\ UNCHANGED videosContainer
          ELSE /\ videosContainer' = ReplaceItem(target, video)
               /\ req' = [req EXCEPT ![s] = Respond(req[s], 200, <<video>>, "")]
    /\ UNCHANGED <<usersContainer, revision, blobs, containerExists, now, issued, scenario>>

\* --------------------------------------------- DELETE /api/videos/:id
\* The request arrives; the lookup; the name of the blob to delete.
DeleteRead(s, id, failed) ==
    /\ Free(s)
    /\ LET r == [NoReq EXCEPT !.op = "delete", !.id = id]
       IN IF failed
          THEN req' = [req EXCEPT ![s] =
                 Catch(r, "Error deleting video", IF revision = 1 THEN "query" ELSE "read",
                       500, "Delete failed")]
          ELSE IF Lookup(id) = {}
          THEN req' = [req EXCEPT ![s] = Respond(r, 404, <<>>, "Video not found")]
          ELSE \E video \in Lookup(id) :
                 req' = [req EXCEPT ![s] =
                     IF revision = 1 /\ video.blobUrl = <<>>
                     THEN [r EXCEPT !.pc = "deleteDoc", !.video = <<video>>]
                     ELSE [r EXCEPT !.pc = "deleteBlob", !.video = <<video>>,
                                    !.blobName = SplitPop(video.blobUrl)]]
    /\ UNCHANGED <<usersContainer, revision, videosContainer, blobs, containerExists, now, issued,
                   scenario>>

\* A failed blob delete is caught and logged in revision 1 only.
BlobDeleteErrorCaught == revision = 1

\* await blobClient.deleteIfExists()
DeleteBlob(s, failed) ==
    /\ At(s, "deleteBlob")
    /\ IF failed
       THEN /\ req' = [req EXCEPT ![s] =
                 IF BlobDeleteErrorCaught
                 THEN [Log(req[s], "Error deleting blob", "deleteIfExists")
                         EXCEPT !.pc = "deleteDoc"]
                 ELSE Catch(req[s], "Error deleting video", "deleteIfExists",
                            500, "Delete failed")]
            /\ UNCHANGED blobs
       ELSE /\ blobs' = blobs \ {req[s].blobName}
            /\ req' = [req EXCEPT ![s] = [req[s] EXCEPT !.pc = "deleteDoc"]]
    /\ UNCHANGED <<usersContainer, revision, videosContainer, containerExists, now, issued,
                   scenario>>

\* Mutant of DeleteItem: the document delete does nothing.
DeleteItem_Skipped(target) == videosContainer

\* item(...).delete()
DeleteItem(target) == videosContainer \ target

\* await videosContainer.item(...).delete(); res.json({ status: "deleted" })
DeleteDoc(s, failed) ==
    /\ At(s, "deleteDoc")
    /\ LET target == Target(req[s].id, req[s].video[1])
       IN IF failed \/ ItemNotFound(target)
          THEN /\ req' = [req EXCEPT ![s] =
                           Catch(req[s], "Error deleting video", "delete",
                                 500, "Delete failed")]
               /\ UNCHANGED videosContainer
          ELSE /\ videosContainer' = DeleteItem(target)
               /\ req' = [req EXCEPT ![s] = Respond(req[s], 200, <<>>, "")]
    /\ UNCHANGED <<usersContainer, revision, blobs, containerExists, now, issued, scenario>>

\* ------------------------- GET /api/videos, GET /api/users/:userId/videos
\* Mutant of Latest: ascending order.
Latest_Earliest(S) == CHOOSE d \in S : \A e \in S : e.createdAt >= d.createdAt

\* A document of S whose createdAt is largest.
Latest(S) == CHOOSE d \in S : \A e \in S : e.createdAt <= d.createdAt

\* "... ORDER BY c.createdAt DESC"
RECURSIVE OrderByCreatedAtDesc(_)
OrderByCreatedAtDesc(S) ==
    IF S = {} THEN <<>>
    ELSE <<Latest(S)>> \o OrderByCreatedAtDesc(S \ {Latest(S)})

\* "... WHERE c.userId = @userId"
WhereUserId(userId) == {d \in videosContainer : d.userId = userId}

\* The request arrives; the query; res.json(resources)
ListVideos(s, failed) ==
    /\ Free(s)
    /\ LET r == [NoReq EXCEPT !.op = "list"]
       IN req' = [req EXCEPT ![s] =
            IF failed
            THEN Catch(r, "Error listing videos", "query", 500, "Failed to list videos")
            ELSE Respond(r, 200, OrderByCreatedAtDesc(videosContainer), "")]
    /\ UNCHANGED <<usersContainer, revision, videosContainer, blobs, containerExists, now, issued,
                   scenario>>

ListUserVideos(s, userId, failed) ==
    /\ Free(s)
    /\ LET r == [NoReq EXCEPT !.op = "listUser", !.userId = userId]
       IN req' = [req EXCEPT ![s] =
            IF failed
            THEN Catch(r, "Error listing user videos", "query",
                       500, "Failed to list user videos")
            ELSE Respond(r, 200, OrderByCreatedAtDesc(WhereUserId(userId)), "")]
    /\ UNCHANGED <<usersContainer, revision, videosContainer, blobs, containerExists, now, issued,
                   scenario>>

\* The server's steps, for requests whose userId and file are drawn from
\* `users` and `files`.
Serve(users, files) ==
    \/ Tick
    \/ Flush
    \/ \E s \in Slots, title \in Titles \cup {""}, userId \in users \cup {""},
          file \in files \cup {NoFile}, failed \in BOOLEAN :
          UploadEnsure(s, title, userId, file, failed)
    \/ \E s \in Slots, failed \in BOOLEAN : UploadData(s, failed)
    \/ \E s \in Slots, failed \in BOOLEAN : UploadCreate(s, failed)
    \/ \E s \in Slots, failed \in BOOLEAN : ListVideos(s, failed)
    \/ \E s \in Slots, userId \in users, failed \in BOOLEAN :
          ListUserVideos(s, userId, failed)

\* Viewing and deleting.
ViewOrDelete ==
    \/ \E s \in Slots, id \in Ids, failed \in BOOLEAN : GetRead(s, id, failed)
    \/ \E s \in Slots, failed \in BOOLEAN : GetReplace(s, failed)
    \/ \E s \in Slots, id \in Ids, failed \in BOOLEAN : DeleteRead(s, id, failed)
    \/ \E s \in Slots, failed \in BOOLEAN : DeleteBlob(s, failed)
    \/ \E s \in Slots, failed \in BOOLEAN : DeleteDoc(s, failed)

\* The whole server, one uploading user.
Next == Serve({"u1"}, Files) \/ ViewOrDelete

Spec == Init /\ [][Next]_vars

\* Uploading and listing only, two users, one file name.
NextList == Serve(Users, {<<"a", " ", "b">>})

SpecList == Init /\ [][NextList]_vars

\* ------------------------------------------- concurrent viewers of one video
\* The store holds one uploaded video; NumViewers requests GET it, each once.
StoredVideo(views) ==
    [NewVideo("v1", "t", "u1", BlobUrlOf(BlobNameOf(0, <<"a">>)), 0)
        EXCEPT !.views = views]

InitViews ==
    /\ revision \in {1, 2}
    /\ \E views \in 0..MaxStartViews :
          /\ videosContainer = {StoredVideo(views)}
          /\ scenario = [keepResponses |-> TRUE, startViews |-> views]
    /\ usersContainer = {}
    /\ blobs = {BlobNameOf(0, <<"a">>)}
    /\ containerExists = TRUE
    /\ now = 0
    /\ issued = {"v1"}
    /\ req = [s \in 1..NumViewers |-> NoReq]

NextViews ==
    \/ \E s \in Slots, failed \in BOOLEAN : GetRead(s, "v1", failed)
    \/ \E s \in Slots, failed \in BOOLEAN : GetReplace(s, failed)

SpecViews == InitViews /\ [][NextViews]_vars

\* ------------------------------------- viewers and deleters of one video
\* The store holds one uploaded video; each of NumRacers requests GETs or
\* DELETEs it.  Revisions 1 and 2 have both routes.
InitRace ==
    /\ revision \in {1, 2}
    /\ videosContainer = {StoredVideo(0)}
    /\ scenario = [keepResponses |-> TRUE, startViews |-> 0]
    /\ usersContainer = {}
    /\ blobs = {BlobNameOf(0, <<"a">>)}
    /\ containerExists = TRUE
    /\ now = 0
    /\ issued = {"v1"}
    /\ req = [s \in 1..NumRacers |-> NoReq]

NextRace ==
    \/ \E s \in Slots, failed \in BOOLEAN : GetRead(s, "v1", failed)
    \/ \E s \in Slots, failed \in BOOLEAN : GetReplace(s, failed)
    \/ \E s \in Slots, failed \in BOOLEAN : DeleteRead(s, "v1", failed)
    \/ \E s \in Slots, failed \in BOOLEAN : DeleteBlob(s, failed)
    \/ \E s \in Slots, failed \in BOOLEAN : DeleteDoc(s, failed)

SpecRace == InitRace /\ [][NextRace]_vars

\* ------------------------------------------------------ GET /api/auth/me
\* The route exists in revisions 2 and 3.
HasAuthRoute == revision \in {2, 3}

\* The entries /.auth/me can report for the signed-in caller: with a user_id,
\* without one, and with the user_id of the first but no email.
Principals ==
    {[user_id |-> "p1", userDetails |-> "ann", email |-> "a@x"],
     [user_id |-> "", userDetails |-> "ann", email |-> ""],
     [user_id |-> "p1", userDetails |-> "ann", email |-> ""]}

\* What `data` of `const { data } = await fetch("/.auth/me", ...)` can hold
\* when the call resolves.  fetch is the runtime's global: the object it
\* resolves to carries no principal list (a Response has no data property;
\* <<>> stands for that and for an empty list) or, where the runtime supplies
\* one, a list with the caller's entry.  The call can also reject (Node's
\* fetch refuses a relative URL).
FetchData == {<<>>} \cup {<<principal>> : principal \in Principals}

\* principal.user_id || principal.userDetails
UserIdOf(principal) ==
    IF principal.user_id # "" THEN principal.user_id ELSE principal.userDetails

\* The user document fetchAuthUser builds from the principal.
NewUser(principal) ==
    [id |-> UserIdOf(principal), username |-> principal.userDetails,
     displayName |-> principal.userDetails, email |-> principal.email]

\* "SELECT * FROM c WHERE c.id = @id" on the users container
QueryUserById(id) == {u \in usersContainer : u.id = id}

\* usersContainer.items.create(user) is rejected (409 Conflict) when a document
\* with the id exists.
CreateUserConflicts(user) == QueryUserById(user.id) # {}

\* The request arrives; await fetch; the principal check; the derived id.
AuthFetch(s, data, failed) ==
    /\ HasAuthRoute
    /\ Free(s)
    /\ LET r == [NoReq EXCEPT !.op = "auth"]
       IN req' = [req EXCEPT ![s] =
            IF failed
            THEN Catch(r, "Error fetching user data", "fetch",
                       500, "Failed to fetch user data")
            ELSE IF data = <<>>
            THEN Catch(r, "Error fetching user data", "No user found",
                       500, "Failed to fetch user data")
            ELSE [r EXCEPT !.pc = "getUser", !.principal = <<data[1]>>,
                           !.userId = UserIdOf(data[1])]]
    /\ UNCHANGED <<usersContainer, revision, videosContainer, blobs, containerExists,
                   now, issued, scenario>>

\* await getUserById(userId): a failed query is logged and read as "no user";
\* if (!user) the record is built from the principal.
AuthGetUser(s, failed) ==
    /\ At(s, "getUser")
    /\ IF failed \/ QueryUserById(req[s].userId) = {}
       THEN LET r == IF failed THEN Log(req[s], "Error getting user", "query")
                     ELSE req[s]
            IN req' = [req EXCEPT ![s] =
                 [r EXCEPT !.pc = "createUser",
                           !.user = <<NewUser(req[s].principal[1])>>]]
       ELSE \E user \in QueryUserById(req[s].userId) :
              req' = [req EXCEPT ![s] =
                  Respond([req[s] EXCEPT !.user = <<user>>], 200, <<user>>, "")]
    /\ UNCHANGED <<usersContainer, revision, videosContainer, blobs, containerExists,
                   now, issued, scenario>>

\* await createUser(user): a failed create is logged and swallowed; return user;
\* res.json(user)
AuthCreateUser(s, failed) ==
    /\ At(s, "createUser")
    /\ LET user == req[s].user[1]
       IN IF failed \/ CreateUserConflicts(user)
          THEN /\ req' = [req EXCEPT ![s] =
                    Respond(Log(req[s], "Error creating user", "create"),
                            200, <<user>>, "")]
               /\ UNCHANGED usersContainer
          ELSE /\ usersContainer' = usersContainer \cup {user}
               /\ req' = [req EXCEPT ![s] = Respond(req[s], 200, <<user>>, "")]
    /\ UNCHANGED <<revision, videosContainer, blobs, containerExists, now, issued,
                   scenario>>

\* The server answering GET /api/auth/me only.
InitAuth ==
    /\ revision \in {2, 3}
    /\ videosContainer = {}
    /\ usersContainer = {}
    /\ blobs = {}
    /\ containerExists = FALSE
    /\ now = 0
    /\ issued = {}
    /\ req = [s \in 1..NumSlots |-> NoReq]
    /\ scenario = [keepResponses |-> FALSE, startViews |-> 0]

NextAuth ==
    \/ Flush
    \/ \E s \in Slots, data \in FetchData, failed \in BOOLEAN :
          AuthFetch(s, data, failed)
    \/ \E s \in Slots, failed \in BOOLEAN : AuthGetUser(s, failed)
    \/ \E s \in Slots, failed \in BOOLEAN : AuthCreateUser(s, failed)

SpecAuth == InitAuth /\ [][NextAuth]_vars

\* ------------------------------------------------------------------ claims
\* Slot s holds the response to a request of kind op.
Answered(s, op) == req[s].pc = "done" /\ req[s].op = op

\* The handler of slot s has logged an error thrown by the SDK call `call`.
Threw(s, call) == \E i \in DOMAIN req[s].logged : req[s].logged[i][2] = call

\* The blob a blob URL leads to, if it is stored.
Retrievable(blobUrl) == \E name \in blobs : BlobUrlOf(name) = blobUrl

\* C1: an upload with title, userId or file absent is answered 400, has
\* uploaded no blob and built no document, whatever ensureBlobContainer did.
C1_MissingFieldIs400 ==
    \A s \in Slots :
        (Answered(s, "upload") /\ MissingField(req[s].title, req[s].userId, req[s].file))
        => /\ req[s].status = 400
           /\ req[s].blobName = <<>>
           /\ req[s].video = <<>>

\* C2: when an upload is answered 201, a blob is stored under the returned
\* blobUrl, the returned document is stored with views = 0, and no other
\* stored document has its id.
C2_Created201IsStored ==
    \A s \in Slots :
        (Answered(s, "upload") /\ req[s].status = 201)
        => LET newVideo == req[s].body[1]
           IN /\ Retrievable(newVideo.blobUrl)
              /\ newVideo \in videosContainer
              /\ newVideo.views = 0
              /\ \A d \in videosContainer : d.id = newVideo.id => d = newVideo

\* C7: a delete whose blob delete failed still goes on to delete the document:
\* it is at the document delete, or was answered 200, or 500 by the document
\* delete itself.
C7_BlobDeleteFailureNotFatal ==
    \A s \in Slots :
        (req[s].op = "delete" /\ Threw(s, "deleteIfExists"))
        => \/ req[s].pc = "deleteDoc"
           \/ Answered(s, "delete") /\ (req[s].status = 200 \/ Threw(s, "delete"))

\* C8: a failure of the container check never ends an upload: the handler goes
\* on to validation, so the upload is answered 400 or has reached the blob upload.
C8_EnsureContainerNeverRaises ==
    \A s \in Slots :
        (req[s].op = "upload" /\ Threw(s, "createIfNotExists"))
        => req[s].status = 400 \/ req[s].blobName # <<>>

\* C10: a failure after validation is answered 500 "Upload failed" without
\* cleanup: after a failed create the uploaded blob is still stored and no
\* document refers to it; after a failed blob upload no document was built.
C10_UploadFailureNoCleanup ==
    \A s \in Slots :
        Answered(s, "upload")
        => /\ (Threw(s, "uploadData") \/ Threw(s, "create"))
              => req[s].status = 500 /\ req[s].error = "Upload failed"
           /\ Threw(s, "create")
              => /\ req[s].blobName \in blobs
                 /\ \A d \in videosContainer : d.blobUrl # BlobUrlOf(req[s].blobName)
           /\ Threw(s, "uploadData")
              => req[s].video = <<>> /\ req[s].id = ""

Gone(id) ==
    /\ id \in issued
    /\ QueryById(id) = {}
    /\ \A s \in Slots : ~(req[s].pc = "create" /\ req[s].id = id)

C4_AbsentIdIs404 ==
    \A s \in Slots :
        (Answered(s, "delete") /\ req[s].video = <<>> /\ QueryById(req[s].id) = {})
        => req[s].status = 404

\* C4, amended: a delete that arrives for an id without a document ends at its
\* lookup, answered 404, or 500 when the lookup threw, and changes neither the
\* documents nor the blobs.
C4_AbsentIdNoEffect ==
    [][\A s \in Slots :
         (req[s].pc = "idle" /\ req'[s].op = "delete" /\ QueryById(req'[s].id) = {})
         => /\ req'[s].pc = "done"
            /\ req'[s].status \in {404, 500}
            /\ req'[s].status = 500 <=> (Threw(s, "query")' \/ Threw(s, "read")')
            /\ videosContainer' = videosContainer
            /\ blobs' = blobs
      ]_vars

\* C4: a delete for an absent id was answered 404 while another video is stored.
C4_Witness ==
    \E s \in Slots :
        /\ Answered(s, "delete") /\ req[s].status = 404
        /\ QueryById(req[s].id) = {}
        /\ videosContainer # {} /\ blobs # {}

\* SpecViews: the view count of the stored video.
StoredViews == (CHOOSE d \in videosContainer : d.id = "v1").views

\* SpecViews: every viewer has been answered.
AllAnswered == \A s \in Slots : Answered(s, "get")

\* The write-back of slot s went through.
WroteBack(s) ==
    /\ Answered(s, "get") /\ req[s].status = 200
    /\ ~Threw(s, "replace") /\ ~Threw(s, "replace: NotFound")

\* Two viewers read the same count.
SameRead == \E s, t \in Slots : s # t /\ WroteBack(s) /\ WroteBack(t)
                                  /\ req[s].viewsRead = req[t].viewsRead

\* C5 as stated: once all N viewers are answered, the count is between 1 and N
\* above its start.
C5_CountWithinOneToN ==
    AllAnswered =>
        /\ StoredViews >= scenario.startViews + 1
        /\ StoredViews <= scenario.startViews + NumViewers

\* C5, amended: the count never exceeds start + N; once all N viewers are
\* answered it is at least start + 1 if some write-back went through, and it
\* is below start + N if all went through and two of them read the same count.
C5_LostUpdateBounds ==
    /\ StoredViews >= scenario.startViews
    /\ StoredViews <= scenario.startViews + NumViewers
    /\ AllAnswered =>
        /\ (\E s \in Slots : WroteBack(s)) => StoredViews >= scenario.startViews + 1
        /\ (\A s \in Slots : WroteBack(s)) /\ SameRead
               => StoredViews < scenario.startViews + NumViewers

\* C5: all viewers wrote back, two read the same count, an increment is lost.
C5_Witness ==
    /\ AllAnswered
    /\ \A s \in Slots : WroteBack(s)
    /\ SameRead
    /\ StoredViews > scenario.startViews + 1
    /\ StoredViews < scenario.startViews + NumViewers

\* C9 as stated: no step lowers the stored view count.
C9_ViewsNeverDecrease == [][StoredViews' >= StoredViews]_vars

\* C9, amended: the stored count changes only by a write-back, which stores one
\* more than the count its request read; so a write-back whose request read the
\* current count raises it, and only a stale one can lower it.
C9_WriteBackIsReadPlusOne ==
    [][/\ StoredViews' # StoredViews
          => \E s \in Slots : req[s].pc = "replace" /\ WroteBack(s)'
       /\ \A s \in Slots :
            (req[s].pc = "replace" /\ WroteBack(s)')
            => /\ StoredViews' = req[s].viewsRead + 1
               /\ req[s].viewsRead = StoredViews => StoredViews' > StoredViews
               /\ StoredViews' < StoredViews => req[s].viewsRead < StoredViews
      ]_vars

\* C9: a stale write-back has lowered the count: a viewer wrote back more than
\* is stored now.
C9_Witness ==
    \E s, t \in Slots :
        /\ WroteBack(s) /\ WroteBack(t)
        /\ StoredViews = req[s].viewsRead + 1
        /\ req[t].viewsRead + 1 > StoredViews

\* The createdAt of a list are in descending order.
SortedDesc(list) ==
    \A i, j \in DOMAIN list : i < j => list[i].createdAt >= list[j].createdAt

\* The list holds exactly the documents of S, each once.
ListsExactly(list, S) ==
    /\ {list[i] : i \in DOMAIN list} = S
    /\ Len(list) = Cardinality(S)

\* C6: a list of all videos, or of one user's videos, that is answered 200 is
\* in descending order of createdAt and holds exactly the stored documents,
\* or exactly those of the user.
C6_ListsSortedAndFiltered ==
    \A s \in Slots :
        /\ (Answered(s, "list") /\ req[s].status = 200)
           => SortedDesc(req[s].body) /\ ListsExactly(req[s].body, videosContainer)
        /\ (Answered(s, "listUser") /\ req[s].status = 200)
           => /\ SortedDesc(req[s].body)
              /\ ListsExactly(req[s].body,
                              {d \in videosContainer : d.userId = req[s].userId})

\* C6: a list of two videos of two users, created at different times.
C6_Witness ==
    \E s \in Slots :
        /\ Answered(s, "list") /\ req[s].status = 200
        /\ Len(req[s].body) = 2
        /\ req[s].body[1].createdAt > req[s].body[2].createdAt
        /\ req[s].body[1].userId # req[s].body[2].userId

C12_DeletedNeverResurrected ==
    /\ [](\A s \in Slots :
            (Answered(s, "delete") /\ req[s].status = 200)
            => QueryById(req[s].id) = {})
    /\ [][\A s \in Slots :
            (req[s].pc = "replace" /\ req'[s].pc = "done"
             /\ QueryById(req[s].id) = {})
            => /\ videosContainer' = videosContainer
               /\ Threw(s, "replace")' \/ Threw(s, "replace: NotFound")'
         ]_vars

\* C12: a getVideo read the video, a deleteVideo removed it, and the
\* getVideo's write-back then found no document; none exists now.
C12_Witness ==
    \E s, t \in Slots :
        /\ Answered(s, "delete") /\ req[s].status = 200
        /\ Answered(t, "get") /\ req[t].id = req[s].id
        /\ Threw(t, "replace: NotFound")
        /\ QueryById(req[s].id) = {}

=============================================================================
